---- MODULE Spec2Model ----
(***************************************************************************)
(* A model of scripts/daily_report.py and scripts/heartbeat.py.            *)
(*                                                                         *)
(* Text is a sequence of tokens.  The two markers of daily_report.py,      *)
(*   START = "<!-- DAILY-SECTION:START -->"  (token "S")                   *)
(*   END   = "<!-- DAILY-SECTION:END -->"    (token "E")                   *)
(* are single tokens: each holds one "<", its first character, so no       *)
(* proper suffix of a marker is a prefix of a marker, occurrences never    *)
(* overlap, and no marker holds a newline or a backslash: gluing text to   *)
(* a marker or to a newline never makes or breaks an occurrence.  The      *)
(* other tokens are single characters:                                     *)
(*   "x"  an ASCII letter that is no escape of a re template (such as d),  *)
(*   "nl" line feed, "cr" carriage return, "bs" backslash.                 *)
(* File contents are the bytes on disk; the platform is POSIX (the         *)
(* workflow's runner), where write_text writes "\n" as it is.              *)
(***************************************************************************)
EXTENDS Integers, Sequences, FiniteSets, TLC

(***************************************************************************)
(* Bounds of the model.                                                    *)
(***************************************************************************)
MaxDocLen == 3
MaxContentLen == 2
MaxCalls == 2
MaxMinute == 1
MaxSecond == 1
MaxRuns == 2
MaxRepos == 2
MaxBytes == 2
MaxFeedLen == 13
MaxEvents == 6
NowDay == 10

VARIABLES
  readme,    \* README.md: [exists, bytes]
  content,   \* the report text handed to ensure_readme_section
  calls,     \* calls of ensure_readme_section so far
  before,    \* README.md as the last call found it
  txtRead,   \* what the last call's read_text returned
  ret        \* the last call's result: "none", "True", "False", "re.error"

spliceVars == <<readme, content, calls, before, txtRead, ret>>

VARIABLES
  hbFile,    \* HEARTBEAT.md: [exists, bytes]
  clock,     \* the UTC clock: [min, sec]
  hbRuns,    \* runs of heartbeat.py so far
  hbNow,     \* the clock reading of the last run
  hbPrevNow, \* the clock reading of the run before it
  hbOld,     \* HEARTBEAT.md as the last run found it
  hbWrote,   \* whether the last run called write_text
  hbMsg      \* what the last run printed

hbVars == <<hbFile, clock, hbRuns, hbNow, hbPrevNow, hbOld, hbWrote, hbMsg>>

VARIABLES
  reposOK,   \* whether the repository listing was fetched (else fetch_json raises)
  repos,     \* the listing: a sequence of [fork, langs]
  langOut    \* what top_languages did: [kind, lines]

langVars == <<reposOK, repos, langOut>>

VARIABLES
  feedOK,    \* whether the feed was fetched (else requests.get raises)
  xml,       \* the feed: its tags, in the order they stand in the markup
  rssOut,    \* what rss_digest returned: [kind, items]
  soOut      \* what stackoverflow_digest returned: [kind, items]

feedVars == <<feedOK, xml, rssOut, soOut>>

VARIABLES
  eventsOK,  \* whether the event timeline was fetched (else fetch_json raises)
  events,    \* the timeline: a sequence of [created, type, repo]
  actOut     \* what recent_activity did: [kind, items]

actVars == <<eventsOK, events, actOut>>

VARIABLES
  net,       \* the outcome of each upstream call of this run: TRUE when it succeeds
  pc,        \* the part of assemble()'s list being evaluated
  parts,     \* the parts evaluated so far
  status     \* "running", "returned" or "raised"

asmVars == <<net, pc, parts, status>>

vars == <<spliceVars, hbVars, langVars, feedVars, actVars, asmVars>>

\* What each script, or each producer run on its own, leaves alone.
notSplice == <<hbVars, langVars, feedVars, actVars, asmVars>>
notHeartbeat == <<spliceVars, langVars, feedVars, actVars, asmVars>>
notLang == <<spliceVars, hbVars, feedVars, actVars, asmVars>>
notFeed == <<spliceVars, hbVars, langVars, actVars, asmVars>>
notActivity == <<spliceVars, hbVars, langVars, feedVars, asmVars>>
notAssemble == <<spliceVars, hbVars, langVars, feedVars, actVars>>

(***************************************************************************)
(* Sequences.                                                              *)
(***************************************************************************)
Range(s) == {s[i] : i \in 1..Len(s)}

SeqsUpTo(A, n) == UNION {[1..k -> A] : k \in 0..n}

Drop(s, k) == SubSeq(s, k + 1, Len(s))

Take(s, k) == SubSeq(s, 1, IF k < Len(s) THEN k ELSE Len(s))

Min(a, b) == IF a < b THEN a ELSE b

Count(s, t) == Cardinality({i \in 1..Len(s) : s[i] = t})

IsPrefix(p, s) == Len(p) <= Len(s) /\ SubSeq(s, 1, Len(p)) = p

\* The least index >= from at which token t stands in s, or 0.
IndexFrom(s, t, from) ==
  LET hits == {i \in from..Len(s) : s[i] = t}
  IN  IF hits = {} THEN 0 ELSE CHOOSE i \in hits : \A j \in hits : i <= j

(***************************************************************************)
(* daily_report.py: the markers and the document.                          *)
(***************************************************************************)
START == "S"
END == "E"

Chars == {"x", "nl", "cr", "bs"}
Tokens == Chars \cup {START, END}
Whitespace == {"nl", "cr"}

\* f"# {REPO_FULL}": one line of plain text.
Heading == <<"x">>

Absent == [exists |-> FALSE, bytes |-> <<>>]
File(b) == [exists |-> TRUE, bytes |-> b]

\* Path.read_text: text mode with universal newlines, "\r\n" and "\r" read as "\n".
RECURSIVE ReadText(_)
ReadText(b) ==
  IF b = <<>> THEN <<>>
  ELSE IF b[1] = "cr"
       THEN IF Len(b) >= 2 /\ b[2] = "nl"
            THEN <<"nl">> \o ReadText(Drop(b, 2))
            ELSE <<"nl">> \o ReadText(Drop(b, 1))
       ELSE <<b[1]>> \o ReadText(Drop(b, 1))

\* Path.write_text on POSIX: "\n" is written as it is.
WriteText(t) == t

\* str.rstrip(): trailing whitespace removed.
RECURSIVE RStrip(_)
RStrip(t) ==
  IF t # <<>> /\ t[Len(t)] \in Whitespace THEN RStrip(SubSeq(t, 1, Len(t) - 1)) ELSE t

\* f"{START}\n{content}\n{END}"
Region(c) == <<START, "nl">> \o c \o <<"nl", END>>

(***************************************************************************)
(* re.sub's replacement template: a backslash starts an escape.  "\\" is   *)
(* one backslash, a backslash before an ASCII letter that is no escape is  *)
(* re.error (bad escape), as is a backslash that ends the template; a      *)
(* backslash before any other character stays.                             *)
(***************************************************************************)
RECURSIVE ExpandTemplate(_)
ExpandTemplate(t) ==
  IF t = <<>> THEN [ok |-> TRUE, out |-> <<>>]
  ELSE IF t[1] = "bs"
       THEN IF Len(t) = 1 \/ t[2] = "x" THEN [ok |-> FALSE, out |-> <<>>]
            ELSE LET rest == ExpandTemplate(Drop(t, 2))
                     head == IF t[2] = "bs" THEN <<"bs">> ELSE <<"bs", t[2]>>
                 IN  [ok |-> rest.ok, out |-> IF rest.ok THEN head \o rest.out ELSE <<>>]
       ELSE LET rest == ExpandTemplate(Drop(t, 1))
            IN  [ok |-> rest.ok, out |-> IF rest.ok THEN <<t[1]>> \o rest.out ELSE <<>>]

\* re.sub(START.*?END, repl, txt, flags=DOTALL): every non-overlapping match, left
\* to right; a match runs from a START to the first END after it.
RECURSIVE SubAll(_, _)
SubAll(txt, repl) ==
  LET s == IndexFrom(txt, START, 1)
      e == IF s = 0 THEN 0 ELSE IndexFrom(txt, END, s + 1)
  IN  IF s = 0 \/ e = 0 THEN txt
      ELSE SubSeq(txt, 1, s - 1) \o repl \o SubAll(Drop(txt, e), repl)

\* re.sub compiles the template before it searches: a bad escape raises whether
\* or not the pattern matches.
ReSub(txt, c) ==
  LET repl == ExpandTemplate(Region(c))
  IN  IF repl.ok THEN [ok |-> TRUE, out |-> SubAll(txt, repl.out)]
      ELSE [ok |-> FALSE, out |-> txt]

\* A faulty variant of CreatedDoc: the end marker is left out.
CreatedDocNoEnd(c) == Heading \o <<"nl", "nl", START, "nl">> \o c \o <<"nl">>

\* The document ensure_readme_section creates when README.md is absent.
CreatedDoc(c) == Heading \o <<"nl", "nl">> \o Region(c) \o <<"nl">>

\* A faulty variant of AppendedDoc: the prior text is not stripped.
AppendedDocNoStrip(txt, c) == txt \o <<"nl", "nl">> \o Region(c) \o <<"nl">>

\* The else branch: the markers are not both there, the region is appended.
AppendedDoc(txt, c) == RStrip(txt) \o <<"nl", "nl">> \o Region(c) \o <<"nl">>

\* The branch condition: START in txt and END in txt.
BothMarkers(txt) == START \in Range(txt) /\ END \in Range(txt)

\* ensure_readme_section(c) on document f: the document it leaves and what it returns.
EnsureReadmeSection(f, c) ==
  IF ~f.exists THEN [file |-> File(WriteText(CreatedDoc(c))), ret |-> "True"]
  ELSE LET txt == ReadText(f.bytes)
           sub == IF BothMarkers(txt) THEN ReSub(txt, c)
                  ELSE [ok |-> TRUE, out |-> AppendedDoc(txt, c)]
       IN  IF ~sub.ok THEN [file |-> f, ret |-> "re.error"]
           ELSE IF sub.out # txt THEN [file |-> File(WriteText(sub.out)), ret |-> "True"]
           ELSE [file |-> f, ret |-> "False"]

Docs == {Absent} \cup {File(b) : b \in SeqsUpTo(Tokens, MaxDocLen)}
Contents == SeqsUpTo(Tokens, MaxContentLen)

InitSplice ==
  /\ readme \in Docs
  /\ content \in Contents
  /\ calls = 0
  /\ before = Absent
  /\ txtRead = <<>>
  /\ ret = "none"

\* main(): one run of the script with report text content.
Call ==
  /\ calls < MaxCalls
  /\ LET r == EnsureReadmeSection(readme, content)
     IN  /\ readme' = r.file
         /\ ret' = r.ret
  /\ before' = readme
  /\ txtRead' = IF readme.exists THEN ReadText(readme.bytes) ELSE <<>>
  /\ calls' = calls + 1
  /\ UNCHANGED <<content, notSplice>>

IdleSplice ==
  /\ readme = Absent
  /\ content = <<>>
  /\ calls = 0
  /\ before = Absent
  /\ txtRead = <<>>
  /\ ret = "none"

(***************************************************************************)
(* The document splice: C1, C3, C4, C5.                                    *)
(***************************************************************************)
\* The first delimited region of b: from the first START to the first END after it.
RegionStart(b) == IndexFrom(b, START, 1)
RegionEnd(b) == IF RegionStart(b) = 0 THEN 0 ELSE IndexFrom(b, END, RegionStart(b) + 1)
HasRegion(b) == RegionStart(b) # 0 /\ RegionEnd(b) # 0

NoMarkers(c) == START \notin Range(c) /\ END \notin Range(c)

\* b holds one START and one END, in this order, with exactly "\n" c "\n" between.
OneRegionHolding(b, c) ==
  /\ Count(b, START) = 1
  /\ Count(b, END) = 1
  /\ RegionStart(b) < RegionEnd(b)
  /\ SubSeq(b, RegionStart(b) + 1, RegionEnd(b) - 1) = <<"nl">> \o c \o <<"nl">>

\* A document with one delimited region and nothing else that could be taken for
\* one: one START, one END after it, line ends as "\n".
PlainRegionDoc(b) ==
  /\ Count(b, START) = 1
  /\ Count(b, END) = 1
  /\ HasRegion(b)
  /\ "cr" \notin Range(b)

\* C1, in its plainest case (a document with exactly one region, content that
\* holds no marker): ensure_readme_section replaces the span from the start marker
\* through the end marker by start marker, newline, content, newline, end marker,
\* and leaves every byte before and after that span as it was.
C1_ReplacesOnlyRegion ==
  (calls >= 1 /\ before.exists /\ PlainRegionDoc(before.bytes) /\ NoMarkers(content)) =>
    /\ ret # "re.error"
    /\ readme.bytes = SubSeq(before.bytes, 1, RegionStart(before.bytes) - 1)
                        \o Region(content)
                        \o Drop(before.bytes, RegionEnd(before.bytes))

\* C3, for content that is plain text (no marker, no carriage return): from any
\* initial document, the second of two calls in a row with the same content writes
\* nothing; it returns False and leaves the document as the first call left it.
C3_SecondCallIsNoOp ==
  (calls >= 2 /\ NoMarkers(content) /\ "cr" \notin Range(content)) =>
    (ret = "False" /\ readme = before)

\* C4 as stated: for any content, the document created when README.md is absent
\* holds exactly one start marker and one end marker, with the content between.
C4_CreatedHasOneRegion ==
  (calls >= 1 /\ ~before.exists) =>
    (ret = "True" /\ readme.exists /\ OneRegionHolding(readme.bytes, content))

\* C4 amended: the same, for content that holds neither marker.
C4_CreatedHasOneRegionNoMarkers ==
  (calls >= 1 /\ ~before.exists /\ NoMarkers(content)) =>
    (ret = "True" /\ readme.exists /\ OneRegionHolding(readme.bytes, content))

\* C4: README.md was absent and the call created it around content that holds a
\* backslash and no marker.
C4_Witness ==
  /\ calls = 1
  /\ ~before.exists
  /\ content = <<"x", "bs">>
  /\ readme.exists
  /\ ret = "True"

\* The region appended after a blank line, closing the document.
AppendedTail(c) == <<"nl", "nl", START, "nl">> \o c \o <<"nl", END, "nl">>

\* C5 as stated: on a document without both markers the region is appended at the
\* end and the whole prior content is a byte-for-byte prefix of the result.
C5_AppendKeepsPriorBytes ==
  (calls >= 1 /\ before.exists /\ ~BothMarkers(before.bytes)) =>
    /\ ret = "True"
    /\ IsPrefix(before.bytes, readme.bytes)
    /\ Drop(readme.bytes, Len(readme.bytes) - Len(AppendedTail(content)))
         = AppendedTail(content)

\* C5 amended: the prior content as read in text mode ("\r\n" and "\r" read as
\* "\n"), less its trailing whitespace, is what the appended region follows.
C5_AppendKeepsStrippedText ==
  (calls >= 1 /\ before.exists /\ ~BothMarkers(before.bytes)) =>
    /\ ret = "True"
    /\ \E k \in 0..Len(txtRead) :
         /\ \A i \in (k + 1)..Len(txtRead) : txtRead[i] \in Whitespace
         /\ k = 0 \/ txtRead[k] \notin Whitespace
         /\ readme.bytes = SubSeq(txtRead, 1, k) \o AppendedTail(content)

\* C5: a document with a start marker only and a trailing newline got the region
\* appended after its stripped text.
C5_Witness ==
  /\ calls = 1
  /\ before = File(<<START, "x", "nl">>)
  /\ content = <<"x">>
  /\ readme.bytes = <<START, "x">> \o AppendedTail(<<"x">>)

(***************************************************************************)
(* heartbeat.py.  The clock is read to the second; a reading is            *)
(* [min, sec], min standing for the date, hour and minute.                 *)
(***************************************************************************)
Times == [min : 0..MaxMinute, sec : 0..MaxSecond]

Later(a, b) == a.min < b.min \/ (a.min = b.min /\ a.sec < b.sec)

\* now.strftime("%Y-%m-%d %H:%M:%S %Z")
Strftime(t) == ToString(t.min) \o ":" \o ToString(t.sec) \o " UTC"

\* "".join(content): the three lines of the heartbeat document.
Render(t) ==
  << "# Daily Heartbeat", "nl",
     "This file is automatically updated once per day by a workflow.", "nl", "nl",
     "Last update: **", Strftime(t), "**", "nl" >>

\* A faulty variant of HbOld: the file is never read.
HbOldIgnoresFile(f) == <<>>

\* HEARTBEAT.read_text(encoding="utf-8") if HEARTBEAT.exists() else ""
HbOld(f) == IF f.exists THEN ReadText(f.bytes) ELSE <<>>

\* A faulty variant of Changed: the file is rewritten on every run.
AlwaysChanged(old, new) == TRUE

\* if old != new
Changed(old, new) == old # new

\* Text with its line ends written the way a checkout or an editor may leave them.
RECURSIVE WithLineEnds(_, _)
WithLineEnds(t, style) ==
  IF t = <<>> THEN <<>>
  ELSE (IF t[1] # "nl" THEN <<t[1]>>
        ELSE IF style = "crlf" THEN <<"cr", "nl">>
        ELSE IF style = "cr" THEN <<"cr">>
        ELSE <<"nl">>) \o WithLineEnds(Drop(t, 1), style)

HbFiles ==
  {Absent, File(<<>>), File(<<"x", "nl">>)}
    \cup {File(WithLineEnds(Render(t), style)) : t \in Times, style \in {"lf", "crlf", "cr"}}

InitHeartbeat ==
  /\ hbFile \in HbFiles
  /\ clock \in Times
  /\ hbRuns = 0
  /\ hbNow = [min |-> 0, sec |-> 0]
  /\ hbPrevNow = [min |-> 0, sec |-> 0]
  /\ hbOld = Absent
  /\ hbWrote = FALSE
  /\ hbMsg = "none"

IdleHeartbeat ==
  /\ hbFile = Absent
  /\ clock = [min |-> 0, sec |-> 0]
  /\ hbRuns = 0
  /\ hbNow = [min |-> 0, sec |-> 0]
  /\ hbPrevNow = [min |-> 0, sec |-> 0]
  /\ hbOld = Absent
  /\ hbWrote = FALSE
  /\ hbMsg = "none"

\* Time passes between runs.
ClockAdvance ==
  /\ \E t \in Times : Later(clock, t) /\ clock' = t
  /\ UNCHANGED <<hbFile, hbRuns, hbNow, hbPrevNow, hbOld, hbWrote, hbMsg, notHeartbeat>>

\* One run of heartbeat.py.
Heartbeat ==
  /\ hbRuns < MaxRuns
  /\ LET old == HbOld(hbFile)
         new == Render(clock)
     IN  IF Changed(old, new)
         THEN /\ hbFile' = File(WriteText(new))
              /\ hbWrote' = TRUE
              /\ hbMsg' = "Heartbeat updated."
         ELSE /\ hbFile' = hbFile
              /\ hbWrote' = FALSE
              /\ hbMsg' = "No change; heartbeat already up to date."
  /\ hbOld' = hbFile
  /\ hbPrevNow' = hbNow
  /\ hbNow' = clock
  /\ hbRuns' = hbRuns + 1
  /\ UNCHANGED <<clock, notHeartbeat>>

\* The heartbeat file's current content, an absent file counting as empty.
CurrentBytes(f) == IF f.exists THEN f.bytes ELSE <<>>

\* C6 as stated: a run writes the file if and only if the rendered content differs
\* byte for byte from the file's current content; equal, the file is untouched and
\* "no change" is reported, otherwise the file holds the rendered content and
\* "updated" is reported.
C6_WritesIffBytesDiffer ==
  hbRuns >= 1 =>
    /\ hbWrote <=> (Render(hbNow) # CurrentBytes(hbOld))
    /\ hbWrote => (hbFile = File(Render(hbNow)) /\ hbMsg = "Heartbeat updated.")
    /\ ~hbWrote => (hbFile = hbOld /\ hbMsg = "No change; heartbeat already up to date.")

\* C6 amended: the comparison is with the file's content as read in text mode,
\* where "\r\n" and "\r" count as "\n".
C6_WritesIffTextDiffers ==
  hbRuns >= 1 =>
    /\ hbWrote <=> (Render(hbNow) # ReadText(CurrentBytes(hbOld)))
    /\ hbWrote => (hbFile = File(Render(hbNow)) /\ hbMsg = "Heartbeat updated.")
    /\ ~hbWrote => (hbFile = hbOld /\ hbMsg = "No change; heartbeat already up to date.")

\* C6: the file held the rendered text with "\r\n" line ends, and the run left
\* it untouched.
C6_Witness ==
  /\ hbRuns = 1
  /\ hbOld = File(WithLineEnds(Render(hbNow), "crlf"))
  /\ ~hbWrote
  /\ hbFile = hbOld

\* C7 as stated: the second of two consecutive runs whose clock readings share the
\* minute writes nothing.
C7_SameMinuteNoWrite ==
  (hbRuns >= 2 /\ hbPrevNow.min = hbNow.min) => ~hbWrote

\* C7 amended: the second of two consecutive runs whose clock readings share the
\* second writes nothing.
C7_SameSecondNoWrite ==
  (hbRuns >= 2 /\ hbPrevNow = hbNow) => (~hbWrote /\ hbFile = hbOld)

\* C7: a second run read the clock within the same second as the first and wrote
\* nothing.
C7_Witness ==
  /\ hbRuns = 2
  /\ hbPrevNow = hbNow
  /\ hbOld = File(Render(hbNow))
  /\ ~hbWrote

(***************************************************************************)
(* top_languages.  A languages response is [ok, body]: not ok when         *)
(* fetch_json raised (the producer goes on with {}), else body is the JSON *)
(* object, a sequence of [lang, bytes] in the object's order, no language  *)
(* twice.                                                                  *)
(***************************************************************************)
Langs == {"Python", "Go"}

\* limit=6
Limit == 6

LangObjects ==
  {o \in SeqsUpTo([lang : Langs, bytes : 0..MaxBytes], Cardinality(Langs)) :
     \A i, j \in 1..Len(o) : i # j => o[i].lang # o[j].lang}

\* A fork's languages_url is never fetched.
Failed == [ok |-> FALSE, body |-> <<>>]

Repo ==
  {[fork |-> TRUE, langs |-> Failed]}
    \cup {[fork |-> FALSE, langs |-> l] :
            l \in {[ok |-> TRUE, body |-> o] : o \in LangObjects} \cup {Failed}}

\* agg[lang] = agg.get(lang, 0) + bytes_
AggAdd(agg, e) ==
  IF \E i \in 1..Len(agg) : agg[i].lang = e.lang
  THEN [i \in 1..Len(agg) |->
          IF agg[i].lang = e.lang THEN [agg[i] EXCEPT !.bytes = @ + e.bytes] ELSE agg[i]]
  ELSE Append(agg, e)

RECURSIVE AggAddAll(_, _)
AggAddAll(agg, o) ==
  IF o = <<>> THEN agg ELSE AggAddAll(AggAdd(agg, o[1]), Drop(o, 1))

\* The loop over repos: forks skipped, a failed languages fetch counted as {}.
RECURSIVE Aggregate(_, _)
Aggregate(agg, rs) ==
  IF rs = <<>> THEN agg
  ELSE LET r == rs[1]
           langs == IF r.langs.ok THEN r.langs.body ELSE <<>>
       IN  Aggregate(IF r.fork THEN agg ELSE AggAddAll(agg, langs), Drop(rs, 1))

\* sorted(..., key=bytes, reverse=True): stable, equal counts keep their order.
RECURSIVE InsertDesc(_, _)
InsertDesc(s, e) ==
  IF s = <<>> THEN <<e>>
  ELSE IF s[1].bytes >= e.bytes THEN <<s[1]>> \o InsertDesc(Drop(s, 1), e)
  ELSE <<e>> \o s

RECURSIVE SortDesc(_)
SortDesc(s) ==
  IF s = <<>> THEN <<>> ELSE InsertDesc(SortDesc(SubSeq(s, 1, Len(s) - 1)), s[Len(s)])

RECURSIVE SumBytes(_)
SumBytes(s) == IF s = <<>> THEN 0 ELSE s[1].bytes + SumBytes(Drop(s, 1))

\* A faulty variant of Denominator: no "or 1".
DenominatorNoGuard(sum) == sum

\* total = sum(...) or 1
Denominator(sum) == IF sum = 0 THEN 1 ELSE sum

\* round(v * 100 / total, 1), in tenths of a percent.  The quotient is rounded to
\* the nearest tenth, a tie to the even one (a tie needs total to be a multiple of
\* 16, and is then a multiple of 0.25, which the float holds exactly).
RoundTenths(v, total) ==
  LET n == v * 1000
      q == n \div total
      r == n % total
  IN  IF 2 * r < total THEN q
      ELSE IF 2 * r > total THEN q + 1
      ELSE IF q % 2 = 0 THEN q ELSE q + 1

\* top_languages() once the listing is fetched.
LanguageBlock(rs) ==
  LET agg == Aggregate(<<>>, rs)
      top == Take(SortDesc(agg), Limit)
      total == Denominator(SumBytes(top))
  IN  IF agg = <<>> THEN [kind |-> "nodata", lines |-> <<>>]
      ELSE IF total = 0 THEN [kind |-> "ZeroDivisionError", lines |-> <<>>]
      ELSE [kind |-> "listing",
            lines |-> [i \in 1..Len(top) |->
                         [lang |-> top[i].lang, tenths |-> RoundTenths(top[i].bytes, total)]]]

NoLangOut == [kind |-> "none", lines |-> <<>>]

InitLang ==
  /\ reposOK \in BOOLEAN
  /\ repos \in SeqsUpTo(Repo, MaxRepos)
  /\ ~reposOK => repos = <<>>
  /\ langOut = NoLangOut

IdleLang ==
  /\ reposOK = FALSE
  /\ repos = <<>>
  /\ langOut = NoLangOut

\* top_languages(): the listing's fetch_json is outside any try.
TopLanguages ==
  /\ langOut = NoLangOut
  /\ langOut' = IF reposOK THEN LanguageBlock(repos)
                ELSE [kind |-> "HTTPError", lines |-> <<>>]
  /\ UNCHANGED <<reposOK, repos, notLang>>

\* The byte counts of the fetched languages of the non-fork repositories.
RECURSIVE FetchedCounts(_)
FetchedCounts(rs) ==
  IF rs = <<>> THEN <<>>
  ELSE (IF rs[1].fork \/ ~rs[1].langs.ok THEN <<>>
        ELSE [i \in 1..Len(rs[1].langs.body) |-> rs[1].langs.body[i].bytes])
         \o FetchedCounts(Drop(rs, 1))

RECURSIVE SumSeq(_)
SumSeq(s) == IF s = <<>> THEN 0 ELSE s[1] + SumSeq(Drop(s, 1))

\* C8 as stated: the percentage computation never divides by zero, and whenever
\* the aggregated byte counts total 0, languages with count 0 included, the output
\* is the no-data block.
C8_ZeroTotalIsNoData ==
  (langOut # NoLangOut /\ reposOK) =>
    /\ langOut.kind # "ZeroDivisionError"
    /\ SumSeq(FetchedCounts(repos)) = 0 => langOut.kind = "nodata"

\* C8 amended: the computation never divides by zero; the no-data block is the
\* output exactly when no language at all was aggregated; languages whose counts
\* total 0 are listed, each at 0.0%.
C8_NoDataIffNoLanguage ==
  (langOut # NoLangOut /\ reposOK) =>
    /\ langOut.kind # "ZeroDivisionError"
    /\ langOut.kind = "nodata" <=> FetchedCounts(repos) = <<>>
    /\ (FetchedCounts(repos) # <<>> /\ SumSeq(FetchedCounts(repos)) = 0) =>
         /\ langOut.kind = "listing"
         /\ langOut.lines # <<>>
         /\ \A i \in 1..Len(langOut.lines) : langOut.lines[i].tenths = 0

\* C8: one language of 0 bytes was aggregated and is listed at 0.0%.
C8_Witness ==
  /\ reposOK
  /\ repos = <<[fork |-> FALSE,
                 langs |-> [ok |-> TRUE, body |-> <<[lang |-> "Python", bytes |-> 0]>>]]>>
  /\ langOut = [kind |-> "listing", lines |-> <<[lang |-> "Python", tenths |-> 0]>>]

(***************************************************************************)
(* rss_digest and stackoverflow_digest.  A feed is the sequence of its     *)
(* tags the patterns match, in markup order:                               *)
(*   "title"  <title>text</title>           (both digests)                 *)
(*   "link"   <link>http...</link>          (rss_digest)                   *)
(*   "alink"  <link rel="alternate" type="text/html" href="..."            *)
(*                                          (stackoverflow_digest)         *)
(* The text a tag holds is named by the tag's place in the feed.           *)
(***************************************************************************)
\* limit=5 of rss_digest
RssLimit == 5
\* the slice [2:7] of stackoverflow_digest's titles
SoTitleStop == 7
\* the slice [:5] of stackoverflow_digest's links
SoLinkStop == 5
\* both digests start their titles at index 2
TitleSkip == 2

\* re.findall: the matches of one pattern, in order.
FindAll(feed, tag) == SelectSeq([i \in 1..Len(feed) |-> i], LAMBDA i : feed[i] = tag)

\* s[a:b] of Python, for 0 <= a <= b.
Slice(s, a, b) == SubSeq(s, a + 1, Min(b, Len(s)))

\* zip(titles, links): pairs up to the shorter list.
Zip(t, l) == [i \in 1..Min(Len(t), Len(l)) |-> [title |-> t[i], link |-> l[i]]]

RssTitles(feed, limit) == Slice(FindAll(feed, "title"), TitleSkip, limit + TitleSkip)

\* A faulty variant of RssLinks: the feed's own link is not skipped.
RssLinksNoSkip(feed, limit) == Slice(FindAll(feed, "link"), 0, limit)

\* re.findall(r"<link>(https?://[^<]+)</link>", xml)[1:limit+1]
RssLinks(feed, limit) == Slice(FindAll(feed, "link"), 1, limit + 1)

SoTitles(feed) == Slice(FindAll(feed, "title"), TitleSkip, SoTitleStop)

\* re.findall(r"<link rel=\"alternate\" ...", xml)[:5]
SoLinks(feed) == Slice(FindAll(feed, "alink"), 0, SoLinkStop)

Digest(items) ==
  IF items = <<>> THEN [kind |-> "noitems", items |-> <<>>]
  ELSE [kind |-> "items", items |-> items]

FailedDigest == [kind |-> "failed", items |-> <<>>]
NoDigest == [kind |-> "none", items |-> <<>>]

RssDigestOf(ok, feed, limit) ==
  IF ok THEN Digest(Zip(RssTitles(feed, limit), RssLinks(feed, limit))) ELSE FailedDigest

StackoverflowDigestOf(ok, feed) ==
  IF ok THEN Digest(Zip(SoTitles(feed), SoLinks(feed))) ELSE FailedDigest

\* An RSS feed or an Atom feed.
Feeds == SeqsUpTo({"title", "link"}, MaxFeedLen) \cup SeqsUpTo({"title", "alink"}, MaxFeedLen)

InitFeed ==
  /\ feedOK \in BOOLEAN
  /\ xml \in Feeds
  /\ ~feedOK => xml = <<>>
  /\ rssOut = NoDigest
  /\ soOut = NoDigest

IdleFeed ==
  /\ feedOK = FALSE
  /\ xml = <<>>
  /\ rssOut = NoDigest
  /\ soOut = NoDigest

\* rss_digest()
RssDigest ==
  /\ rssOut = NoDigest
  /\ rssOut' = RssDigestOf(feedOK, xml, RssLimit)
  /\ UNCHANGED <<feedOK, xml, soOut, notFeed>>

\* stackoverflow_digest()
StackoverflowDigest ==
  /\ soOut = NoDigest
  /\ soOut' = StackoverflowDigestOf(feedOK, xml)
  /\ UNCHANGED <<feedOK, xml, rssOut, notFeed>>

NumTags(feed, tag) == Cardinality({i \in 1..Len(feed) : feed[i] = tag})

Monus(a, b) == IF a > b THEN a - b ELSE 0

\* The place in the feed of the k-th tag of a kind.
NthTag(feed, tag, k) ==
  CHOOSE i \in 1..Len(feed) :
    feed[i] = tag /\ Cardinality({j \in 1..i : feed[j] = tag}) = k

\* out renders n items, the i-th being the (i + 2)-th title with the
\* (i + linkSkip)-th link tag.
RendersPairs(out, feed, linkTag, linkSkip, n) ==
  /\ Len(out.items) = n
  /\ out.kind = (IF n = 0 THEN "noitems" ELSE "items")
  /\ \A i \in 1..n :
       out.items[i] = [title |-> NthTag(feed, "title", i + 2),
                       link |-> NthTag(feed, linkTag, i + linkSkip)]

\* C9 as stated: each digest renders min(titles after the first 2, link tags, N)
\* items, the i-th remaining title paired with the i-th link.
C9_ItemsAreMinOfTitlesAndLinks ==
  /\ (feedOK /\ rssOut # NoDigest) =>
       RendersPairs(rssOut, xml, "link", 0,
                    Min(Min(Monus(NumTags(xml, "title"), 2), NumTags(xml, "link")), 5))
  /\ (feedOK /\ soOut # NoDigest) =>
       RendersPairs(soOut, xml, "alink", 0,
                    Min(Min(Monus(NumTags(xml, "title"), 2), NumTags(xml, "alink")), 5))

\* C9 amended: stackoverflow_digest is as stated; rss_digest skips the feed's first
\* link tag as well, so it renders min(titles after the first 2, link tags after
\* the first, N) items, the i-th remaining title paired with the (i + 1)-th link.
C9_RssSkipsFirstLink ==
  /\ (feedOK /\ rssOut # NoDigest) =>
       RendersPairs(rssOut, xml, "link", 1,
                    Min(Min(Monus(NumTags(xml, "title"), 2),
                            Monus(NumTags(xml, "link"), 1)), 5))
  /\ (feedOK /\ soOut # NoDigest) =>
       RendersPairs(soOut, xml, "alink", 0,
                    Min(Min(Monus(NumTags(xml, "title"), 2), NumTags(xml, "alink")), 5))

\* C9: on a feed with 3 titles after the skip and 2 link tags, rss_digest rendered
\* 1 item and stackoverflow_digest, finding no alternate link, none.
C9_Witness ==
  /\ feedOK
  /\ xml = <<"title", "link", "title", "title", "link", "title", "title">>
  /\ rssOut = [kind |-> "items", items |-> <<[title |-> 4, link |-> 5]>>]
  /\ soOut = [kind |-> "noitems", items |-> <<>>]

(***************************************************************************)
(* recent_activity.  Time is counted in days, which the minute-resolution  *)
(* strftime of an item keeps whole.                                        *)
(***************************************************************************)
\* days=7
Days == 7
\* limit=5 of recent_activity
ActLimit == 5

Kinds == {"PushEvent", "WatchEvent"}

\* e["type"].replace("Event", "")
StripEvent(type) ==
  CASE type = "PushEvent" -> "Push"
    [] type = "WatchEvent" -> "Watch"

\* cutoff = datetime.now(timezone.utc) - timedelta(days=days)
Cutoff(now, days) == now - days

\* A faulty variant of Skipped: an event on the edge of the window is skipped too.
SkippedAtEdge(created, cutoff) == created <= cutoff

\* if created < cutoff: continue
Skipped(created, cutoff) == created < cutoff

\* f"- {created} — **{t}** in `{repo}`"
ActivityItem(e) == [when |-> e.created, what |-> StripEvent(e.type), where |-> e.repo]

\* The loop over events, left once limit items are gathered.
RECURSIVE ActivityLoop(_, _, _, _)
ActivityLoop(es, items, cutoff, limit) ==
  IF es = <<>> THEN items
  ELSE IF Skipped(es[1].created, cutoff) THEN ActivityLoop(Drop(es, 1), items, cutoff, limit)
  ELSE LET more == Append(items, ActivityItem(es[1]))
       IN  IF Len(more) >= limit THEN more
           ELSE ActivityLoop(Drop(es, 1), more, cutoff, limit)

RecentActivityOf(ok, es, now) ==
  IF ~ok THEN [kind |-> "HTTPError", items |-> <<>>]
  ELSE LET items == ActivityLoop(es, <<>>, Cutoff(now, Days), ActLimit)
       IN  [kind |-> IF items = <<>> THEN "noactivity" ELSE "items", items |-> items]

NoActivityOut == [kind |-> "none", items |-> <<>>]

\* Before the window, on its edge, inside it.
EventDays == {NowDay - Days - 1, NowDay - Days, NowDay - 1}

Event == [created : EventDays, type : Kinds, repo : {"owner/repo"}]

InitActivity ==
  /\ eventsOK \in BOOLEAN
  /\ events \in SeqsUpTo(Event, MaxEvents)
  /\ ~eventsOK => events = <<>>
  /\ actOut = NoActivityOut

IdleActivity ==
  /\ eventsOK = FALSE
  /\ events = <<>>
  /\ actOut = NoActivityOut

\* recent_activity(): fetch_json is outside any try.
RecentActivity ==
  /\ actOut = NoActivityOut
  /\ actOut' = RecentActivityOf(eventsOK, events, NowDay)
  /\ UNCHANGED <<eventsOK, events, notActivity>>

\* The first n events of es that are no older than `days` days and of a kind in
\* allowed, rendered in feed order.
Rendered(es, allowed, n) ==
  LET kept == SelectSeq(es, LAMBDA e : e.created >= NowDay - 7 /\ e.type \in allowed)
      first == Take(kept, n)
  IN  [i \in 1..Len(first) |->
         [when |-> first[i].created,
          what |-> (IF first[i].type = "PushEvent" THEN "Push" ELSE "Watch"),
          where |-> first[i].repo]]

\* C10 as stated: the items are the first N events in the window whose kind is in
\* an allow-list, a list that leaves some kind out; no other event is rendered.
C10_WindowAndAllowList ==
  (eventsOK /\ actOut # NoActivityOut) =>
    \E allowed \in (SUBSET Kinds) \ {Kinds} : actOut.items = Rendered(events, allowed, 5)

\* C10 amended: the items are the first N events created no earlier than 7 days
\* before the current instant, of any kind, in feed order; an event older than
\* that is never rendered.
C10_WindowOnly ==
  (eventsOK /\ actOut # NoActivityOut) =>
    /\ actOut.items = Rendered(events, Kinds, 5)
    /\ actOut.kind = (IF actOut.items = <<>> THEN "noactivity" ELSE "items")
    /\ \A i \in 1..Len(actOut.items) : actOut.items[i].when >= NowDay - 7

\* C10: of six events, the first too old, the second on the edge of the window and
\* of another kind than the rest, the five in the window were rendered.
C10_Witness ==
  /\ eventsOK
  /\ Len(events) = 6
  /\ actOut # NoActivityOut
  /\ events[1].created = NowDay - Days - 1
  /\ events[2].created = NowDay - Days
  /\ events[2].type = "WatchEvent"
  /\ \A i \in 3..6 : events[i].created = NowDay - 1 /\ events[i].type = "PushEvent"
  /\ Len(actOut.items) = 5
  /\ actOut.items[1] = [when |-> NowDay - Days, what |-> "Watch", where |-> "owner/repo"]

(***************************************************************************)
(* assemble().  Each upstream call of the run succeeds or fails; a         *)
(* producer yields its block, a degraded block, or raises.                 *)
(***************************************************************************)
Calls ==
  { "languages.repos",   \* top_languages: the repository listing
    "languages.langs",   \* top_languages: the languages of a repository
    "repos",             \* list_public_repos
    "events",            \* recent_activity
    "search",            \* help_wanted
    "fx",                \* markets_snapshot: the exchange rates
    "btc",               \* markets_snapshot: the crypto price
    "stackoverflow",     \* stackoverflow_digest
    "weather",           \* weather_block
    "rss" }              \* rss_digest

Raise == "raise"

\* top_languages: no try around the listing; a failed languages fetch counts as {}.
TopLanguagesPart(n) ==
  IF ~n["languages.repos"] THEN Raise
  ELSE IF ~n["languages.langs"] THEN "languages: _No data._"
  ELSE "languages"

\* list_public_repos: no try.
ListPublicReposPart(n) == IF ~n["repos"] THEN Raise ELSE "repos"

\* recent_activity: no try.
RecentActivityPart(n) == IF ~n["events"] THEN Raise ELSE "activity"

\* help_wanted: try around the whole body.
HelpWantedPart(n) == IF ~n["search"] THEN "help_wanted: _Failed to fetch._" ELSE "help_wanted"

\* markets_snapshot: one try around the FX loop, one around the crypto price.
MarketsSnapshotPart(n) ==
  "markets"
    \o (IF n["fx"] THEN "" ELSE ": FX _failed to fetch_")
    \o (IF n["btc"] THEN "" ELSE ": Crypto _failed to fetch_")

StackoverflowPart(n) ==
  IF ~n["stackoverflow"] THEN "stackoverflow: _Failed to fetch._" ELSE "stackoverflow"

WeatherPart(n) == IF ~n["weather"] THEN "weather: _Failed to fetch._" ELSE "weather"

RssPart(n) == IF ~n["rss"] THEN "rss: _Failed to fetch feed._" ELSE "rss"

\* The parts list of assemble(), after the "Last update" line, in order.
PartAt(k, n) ==
  CASE k = 1 -> TopLanguagesPart(n)
    [] k = 2 -> ListPublicReposPart(n)
    [] k = 3 -> RecentActivityPart(n)
    [] k = 4 -> HelpWantedPart(n)
    [] k = 5 -> MarketsSnapshotPart(n)
    [] k = 6 -> StackoverflowPart(n)
    [] k = 7 -> WeatherPart(n)
    [] k = 8 -> RssPart(n)
    [] k = 9 -> "til"

NumParts == 9

InitAssemble ==
  /\ net \in [Calls -> BOOLEAN]
  /\ pc = 1
  /\ parts = <<"last_update">>
  /\ status = "running"

IdleAssemble ==
  /\ net = [c \in Calls |-> TRUE]
  /\ pc = 1
  /\ parts = <<"last_update">>
  /\ status = "running"

\* The next producer of the list returns its block.
ProducerReturns ==
  /\ status = "running"
  /\ pc <= NumParts
  /\ PartAt(pc, net) # Raise
  /\ parts' = Append(parts, PartAt(pc, net))
  /\ pc' = pc + 1
  /\ UNCHANGED <<net, status, notAssemble>>

\* The next producer of the list raises: nothing in assemble() or main() catches it.
ProducerRaises ==
  /\ status = "running"
  /\ pc <= NumParts
  /\ PartAt(pc, net) = Raise
  /\ status' = "raised"
  /\ UNCHANGED <<net, pc, parts, notAssemble>>

\* return "\n\n".join(parts)
AssembleReturns ==
  /\ status = "running"
  /\ pc = NumParts + 1
  /\ status' = "returned"
  /\ UNCHANGED <<net, pc, parts, notAssemble>>

\* The block a producer owes the report: its own when its calls succeed, a
\* placeholder when one fails.
OwedPart(k, n) ==
  CASE k = 1 -> IF n["languages.repos"] /\ n["languages.langs"] THEN "ok" ELSE "placeholder"
    [] k = 2 -> IF n["repos"] THEN "ok" ELSE "placeholder"
    [] k = 3 -> IF n["events"] THEN "ok" ELSE "placeholder"
    [] k = 4 -> IF n["search"] THEN "ok" ELSE "placeholder"
    [] k = 5 -> IF n["fx"] /\ n["btc"] THEN "ok" ELSE "placeholder"
    [] k = 6 -> IF n["stackoverflow"] THEN "ok" ELSE "placeholder"
    [] k = 7 -> IF n["weather"] THEN "ok" ELSE "placeholder"
    [] k = 8 -> IF n["rss"] THEN "ok" ELSE "placeholder"
    [] k = 9 -> "ok"

Names == <<"languages", "repos", "activity", "help_wanted", "markets", "stackoverflow",
           "weather", "rss", "til">>

\* C2: whatever upstream calls fail, assemble() never raises, and the report it
\* returns holds every producer's block, a placeholder for each failing one.
C2_NoProducerRaises ==
  /\ status # "raised"
  /\ status = "returned" =>
       /\ Len(parts) = NumParts + 1
       /\ \A k \in 1..NumParts :
            IF OwedPart(k, net) = "ok" THEN parts[k + 1] = Names[k]
            ELSE parts[k + 1] # Names[k]

(***************************************************************************)
(* The specifications: one for each script or producer, the others idle.   *)
(***************************************************************************)
NextSplice == Call

StartSplice ==
  InitSplice /\ IdleHeartbeat /\ IdleLang /\ IdleFeed /\ IdleActivity /\ IdleAssemble

SpecSplice == StartSplice /\ [][NextSplice]_vars

NextHeartbeat == ClockAdvance \/ Heartbeat

StartHeartbeat ==
  InitHeartbeat /\ IdleSplice /\ IdleLang /\ IdleFeed /\ IdleActivity /\ IdleAssemble

SpecHeartbeat == StartHeartbeat /\ [][NextHeartbeat]_vars

NextLang == TopLanguages

StartLang ==
  InitLang /\ IdleSplice /\ IdleHeartbeat /\ IdleFeed /\ IdleActivity /\ IdleAssemble

SpecLang == StartLang /\ [][NextLang]_vars

NextFeed == RssDigest \/ StackoverflowDigest

StartFeed ==
  InitFeed /\ IdleSplice /\ IdleHeartbeat /\ IdleLang /\ IdleActivity /\ IdleAssemble

SpecFeed == StartFeed /\ [][NextFeed]_vars

NextActivity == RecentActivity

StartActivity ==
  InitActivity /\ IdleSplice /\ IdleHeartbeat /\ IdleLang /\ IdleFeed /\ IdleAssemble

SpecActivity == StartActivity /\ [][NextActivity]_vars

NextAssemble == ProducerReturns \/ ProducerRaises \/ AssembleReturns

StartAssemble ==
  InitAssemble /\ IdleSplice /\ IdleHeartbeat /\ IdleLang /\ IdleFeed /\ IdleActivity

SpecAssemble == StartAssemble /\ [][NextAssemble]_vars
====
